---- MODULE Spec2Model ----
(***************************************************************************)
(* Model of src/main.py: a ball bouncing inside nine concentric rotating   *)
(* arcs, with particle bursts.                                             *)
(*                                                                         *)
(* Fixed-point units (TLC integers are 32 bit):                            *)
(*   lengths and positions   1/40 pixel      (12.5 px  = 500)              *)
(*   velocities, gravities   1/400 pixel per tick (0.275 = 110)            *)
(*   particle displacement   1/4000 pixel    (velocity * speed_mult)       *)
(*   speed_mult, lifetimes   tenths          (1.0 = 10, 40 ticks = 400)    *)
(*   angles                  1/1000 degree   (2*pi = 360000)               *)
(***************************************************************************)
EXTENDS Integers, Sequences, FiniteSets, TLC

\* ---------------------------------------------------------------- bounds
\* Spec: a short run with several input events
MaxTicks == 4
MaxEvents == 2
\* SpecRun: a long run with at most one input event and one mask hit
MaxRunTicks == 50
MaxRunEvents == 1
MaxRunHits == 1
MaxSeed == 0
MaxWheelY == 29
UniformSteps == 4
\* random_angle_with_cut is tried on starts up to this many half cuts
MaxAngleStep == 26
\* wheel events a particle followed on its own may see
MaxScrolls == 1

\* ------------------------------------------------------ program constants
BALL_GRAVITY == 110
BALL_RADIUS == 500
TwoPi == 360000
Pi == 180000
ARC_DELTA == 30000
ARC_SPEED_MIN == 150
ARC_SPEED_MAX == 300
ARC_STEP == 1600
ARC_COUNT == 9
ARC_MARGIN == 2000
PARTICLE_SPEED == 200
PARTICLE_GRAVITY == 40
PARTICLE_LIFETIME == 400
PARTICLE_AMOUNT == 200
CLICK_AMOUNT == 40
MOTION_AMOUNT == 5
SPEED_NEUTRAL == 10
SPEED_MIN == 1
SPEED_MAX == 30
\* display.size of the full-screen surface, here 1000 x 766 pixels
DisplayW == 40000
DisplayH == 30640

Seeds == 0..MaxSeed
WheelYs == {0 - MaxWheelY, -1, 1, MaxWheelY}
ModeKeys == {1, 2, 3}
MousePositions == {<<4000, 4000>>}

\* ------------------------------------------------------------ arithmetic
Min2(a, b) == IF a < b THEN a ELSE b
Max2(a, b) == IF a > b THEN a ELSE b
Abs(a) == IF a < 0 THEN 0 - a ELSE a

\* Python's float % with a positive modulus: result in [0, m)
PyMod(a, m) == a % m

\* round-to-nearest division by a positive d (float product, then stored)
RDiv(a, d) == IF a >= 0 THEN (a + d \div 2) \div d ELSE 0 - ((0 - a + d \div 2) \div d)

RECURSIVE ISqrtIn(_, _, _)
ISqrtIn(x, lo, hi) ==
    IF lo >= hi THEN lo
    ELSE LET mid == (lo + hi + 1) \div 2
         IN IF mid * mid <= x THEN ISqrtIn(x, mid, hi) ELSE ISqrtIn(x, lo, mid - 1)

\* (dx**2 + dy**2) ** 0.5, rounded to the nearest length unit
Length(dx, dy) ==
    LET s == dx * dx + dy * dy
        r == ISqrtIn(s, 0, 46000)
    IN IF s - r * r > r THEN r + 1 ELSE r

\* the stream of the random module: the k-th draw of a handler run seeded
\* with seed, reduced to 0..n-1
Rand(seed, k, n) == (((seed + 1) * 7919) + (k * 613) + (((k * k) % 97) * 31) + ((seed * k) % 89)) % n

\* the generator after a handler has drawn from it
RNG_STEP == 7
Reseed(seed) == seed + RNG_STEP

\* randint(a, b)
RandInt(seed, k, a, b) == a + Rand(seed, k, b - a + 1)

\* uniform(0, total): a + (b - a) * random(); per the library's contract the
\* result N satisfies a <= N <= b, the end point b included; step is the
\* outcome of random(), one of 0 .. UniformSteps for 0.0 .. the largest value
Uniform(step, total) == (total * step) \div UniformSteps

\* ----------------------------------------------------------------- state
VARIABLES
    speed_mult,          \* Sprite.speed_mult
    all_sprites,         \* Group: sequence of entries, the ball and the arcs
    particles,           \* Group: the particles, kept burst by burst (see Members)
    ball_center,         \* ball.circle.center
    ball_velocity,       \* ball.__velocity
    destroy_on_collide,
    particles_on_cursor,
    phase,               \* "loop", "quitting" (running = False), "done", "error"
    rng,                 \* state of the random module's generator
    budget,              \* ticks, input events and mask hits the run may still take
    broken,              \* idx of the arcs fractured since the last layout (history)
    last,                \* what the most recent handler did (observation)
    call                 \* a function or method exercised on its own, with its inputs

vars == <<speed_mult, all_sprites, particles, ball_center, ball_velocity,
          destroy_on_collide, particles_on_cursor, phase, rng, budget, broken, last, call>>

center == <<DisplayW \div 2, DisplayH \div 2>>

BallEntry == [kind |-> "ball"]

\* Arc.__init__: an explicit colour/angle/speed is used when truthy, else drawn
NewArc(i, radius, color, angle, speed, seed, k) ==
    [kind |-> "arc",
     idx |-> i,
     radius |-> radius,
     color |-> IF color # <<>> THEN color
               ELSE [c \in 1..3 |-> RandInt(seed, k + c, 50, 255)],
     speed |-> IF speed # 0 THEN speed
               ELSE (2 * Rand(seed, k + 4, 2) - 1) * (Pi \div RandInt(seed, k + 5, ARC_SPEED_MIN, ARC_SPEED_MAX)),
     angle |-> IF angle # 0 THEN angle ELSE Rand(seed, k + 6, 24) * 15000,
     alive |-> TRUE]

max_r == Min2(center[1], center[2]) - ARC_MARGIN

\* i / 2000 radians in angle units
SpeedStep(i) == RDiv(i * 28648, 1000)

\* set_mode: the nine arcs of layout key, outermost first
set_mode(key, seed) ==
    LET color == [c \in 1..3 |-> RandInt(seed, c, 50, 255)]
        angle == Rand(seed, 4, 24) * 15000
        speed == (2 * Rand(seed, 5, 2) - 1) * (Pi \div RandInt(seed, 6, ARC_SPEED_MIN, ARC_SPEED_MAX))
    IN [n \in 1..ARC_COUNT |->
          LET i == n - 1
              r == max_r - i * ARC_STEP
          IN CASE key = 1 -> NewArc(i, r, <<>>, 0, 0, seed, 10 * n)
               [] key = 2 -> NewArc(i, r, color, angle, speed + SpeedStep(i), seed, 10 * n)
               [] OTHER   -> NewArc(i, r, color, angle + Pi * (i % 2),
                                    IF i % 2 = 1 THEN speed ELSE 0 - speed, seed, 10 * n)]

\* what a handler did: for a tick, whether the collision check ran, on which
\* entry, and what it decided; for a key or wheel event, the key or delta
Obs(op) == [op |-> op, key |-> 0, checked |-> FALSE, nArcs |-> 0, targetKind |-> "none",
            targetIdx |-> -1, targetPos |-> 0, targetAlive |-> FALSE,
            contained |-> FALSE, overlap |-> FALSE,
            reflected |-> FALSE, fractured |-> FALSE,
            allowed |-> 0, distAfter |-> 0, radialOut |-> FALSE,
            velocity |-> <<0, 0>>,
            preDead |-> FALSE, preParts |-> 0, preSpeed |-> 0]


\* ------------------------------------------------------------- particles
\* Vector2.rotate by q quarter turns (the rotations drawn are multiples of 90)
RotQuarter(v, q) ==
    CASE q % 4 = 0 -> v
      [] q % 4 = 1 -> <<0 - v[2], v[1]>>
      [] q % 4 = 2 -> <<0 - v[1], 0 - v[2]>>
      [] OTHER     -> <<v[2], 0 - v[1]>>

\* Particle.__init__; velocity <<0, 0>> and lifetime 0 are falsy and replaced
\* by the defaults, gravity is replaced only when None (passed as <<>>).
\* base is where the particle is created: <<"xy", x, y>>, or <<"polar", r, a>>
\* for center + Vector2(r, 0).rotate_rad(a); off is the displacement since.
NewParticle(base, color, radius, velocity, gravity, lifetime, seed, k) ==
    [base |-> base,
     off |-> <<0, 0>>,
     vel |-> IF velocity # <<0, 0>> THEN velocity
             ELSE RotQuarter(<<PARTICLE_SPEED, PARTICLE_SPEED>>, Rand(seed, k, 4)),
     grav |-> IF gravity = <<>> THEN <<0, PARTICLE_GRAVITY>> ELSE gravity,
     life |-> IF lifetime # 0 THEN lifetime ELSE PARTICLE_LIFETIME,
     color |-> color,
     alpha |-> 255,
     radius |-> radius,
     alive |-> TRUE]

\* int(max(min(255 * lifetime / PARTICLE_LIFETIME, 255), 0)); int truncates
\* toward zero, and the clamped value is never negative
AlphaOf(life) ==
    LET q == IF life >= 0 THEN (255 * life) \div PARTICLE_LIFETIME
             ELSE 0 - ((255 * (0 - life)) \div PARTICLE_LIFETIME)
    IN Max2(Min2(q, 255), 0)

\* (mutant) Particle.update without the kill() at the end of the lifetime
ParticleUpdateNoKill(p, sm) ==
    [p EXCEPT !.off = <<p.off[1] + p.vel[1] * sm, p.off[2] + p.vel[2] * sm>>,
              !.vel = <<p.vel[1] + p.grav[1], p.vel[2] + p.grav[2]>>,
              !.life = p.life - sm,
              !.alpha = AlphaOf(p.life - sm)]

\* Particle.update
ParticleUpdate(p, sm) ==
    LET life == p.life - sm
    IN [p EXCEPT !.off = <<p.off[1] + p.vel[1] * sm, p.off[2] + p.vel[2] * sm>>,
                 !.vel = <<p.vel[1] + p.grav[1], p.vel[2] + p.grav[2]>>,
                 !.life = life,
                 !.alpha = AlphaOf(life),
                 !.alive = IF life <= 0 THEN FALSE ELSE p.alive]

\* random_angle_with_cut for 0 < length < 2*pi, step the outcome of the draw
random_angle_with_cut(start, length, step) ==
    LET s == PyMod(start, TwoPi)
        end == s + length
    IN IF end > TwoPi
       THEN LET allowed_start == PyMod(end, TwoPi)
                allowed_end == s
                total_length == allowed_end - allowed_start
            IN PyMod(allowed_start + Uniform(step, total_length), TwoPi)
       ELSE LET allowed1_length == s
                allowed2_length == TwoPi - end
                total_length == allowed1_length + allowed2_length
                random_value == Uniform(step, total_length)
            IN PyMod(IF random_value < allowed1_length THEN random_value
                     ELSE end + (random_value - allowed1_length), TwoPi)

\* the angle break_arc draws for its n-th particle
BreakTheta(angle, seed, n) ==
    random_angle_with_cut(angle - ARC_DELTA, ARC_DELTA, Rand(seed, 3 * n, UniformSteps + 1))

\* break_arc: the n-th particle it adds for an arc of this radius, angle, colour
BreakParticle(radius, angle, color, seed, n) ==
    NewParticle(<<"polar", radius, 0 - BreakTheta(angle, seed, n)>>, color,
                RandInt(seed, 3 * n + 1, 1, 3), <<0, 0>>, <<>>, 0, seed, 3 * n + 2)

\* MOUSEBUTTONDOWN, button 1: the n-th particle of the list comprehension
ClickParticle(pos, seed, n) ==
    NewParticle(<<"xy", pos[1], pos[2]>>,
                <<235 + RandInt(seed, 7 * n, -20, 20),
                  113 + RandInt(seed, 7 * n + 1, -20, 20),
                  20 + RandInt(seed, 7 * n + 2, -20, 20)>>,
                RandInt(seed, 7 * n + 3, 2, 5),
                <<Rand(seed, 7 * n + 4, 800) - 400, -400>>,
                <<0, Rand(seed, 7 * n + 5, 10)>>,
                10 * RandInt(seed, 7 * n + 6, 30, 60), seed, 0)

\* MOUSEMOTION: the n-th particle of the list comprehension
MotionParticle(pos, seed, n) ==
    NewParticle(<<"xy", pos[1], pos[2]>>,
                [c \in 1..3 |-> RandInt(seed, c, 50, 255)],
                RandInt(seed, 4 * n + 3, 2, 5),
                RotQuarter(<<0, Rand(seed, 4 * n + 4, 4) * 200>>, Rand(seed, 4 * n + 5, 5)),
                <<>>,
                10 * RandInt(seed, 4 * n + 6, 30, 60), seed, 4 * n + 7)

\* The particle collection is kept burst by burst: one entry per call that
\* added particles (what it was called with) and the speed_mult of every
\* Group.update since.  The particles themselves follow from it.
Burst(src, radius, angle, color, pos, seed) ==
    [src |-> src, radius |-> radius, angle |-> angle, color |-> color,
     pos |-> pos, seed |-> seed, sms |-> <<>>]

BurstSize(b) ==
    CASE b.src = "break" -> PARTICLE_AMOUNT
      [] b.src = "click" -> CLICK_AMOUNT
      [] OTHER           -> MOTION_AMOUNT

\* the n-th particle of a burst as constructed
Born(b, n) ==
    CASE b.src = "break" -> BreakParticle(b.radius, b.angle, b.color, b.seed, n)
      [] b.src = "click" -> ClickParticle(b.pos, b.seed, n)
      [] OTHER           -> MotionParticle(b.pos, b.seed, n)

\* a particle after the first j of the updates sms, Group.update calling
\* Particle.update only while it is alive
RECURSIVE Evolve(_, _, _)
Evolve(p, sms, j) ==
    IF j = 0 THEN p
    ELSE LET q == Evolve(p, sms, j - 1)
         IN IF q.alive THEN ParticleUpdate(q, sms[j]) ELSE q

\* Group.update removes a particle in the first pass that finds it dead
InGroup(b, n) == Len(b.sms) = 0 \/ Evolve(Born(b, n), b.sms, Len(b.sms) - 1).alive

\* the particles of a burst that are in the collection, in order
Members(b) ==
    LET idx == SelectSeq([n \in 1..BurstSize(b) |-> n], LAMBDA n : InGroup(b, n))
    IN [i \in 1..Len(idx) |-> Evolve(Born(b, idx[i]), b.sms, Len(b.sms))]

\* the list Group.__sprites of the particle collection
RECURSIVE Flatten(_, _)
Flatten(bursts, n) == IF n = 0 THEN <<>> ELSE Flatten(bursts, n - 1) \o Members(bursts[n])
ParticleList(bursts) == Flatten(bursts, Len(bursts))

\* Group.update on the particle collection
GroupUpdateParticles(bursts, sm) ==
    [n \in 1..Len(bursts) |-> [bursts[n] EXCEPT !.sms = Append(@, sm)]]

\* Sprite.alive; nothing ever kills the ball
IsAlive(e) == IF e.kind = "ball" THEN TRUE ELSE e.alive

\* ------------------------------------------------------ the input events
StartSprites(seed) ==
    <<BallEntry>> \o
        [n \in 1..ARC_COUNT |-> NewArc(n - 1, max_r - (n - 1) * ARC_STEP, <<>>, 0, 0, seed, 10 * n)]

\* main() up to the frame loop
Setup(b) ==
    /\ speed_mult = SPEED_NEUTRAL
    /\ \E seed \in Seeds :
          /\ all_sprites = StartSprites(seed)
          /\ rng = Reseed(seed)
    /\ particles = <<>>
    /\ ball_center = center
    /\ ball_velocity = <<0, 0>>
    /\ destroy_on_collide = FALSE
    /\ particles_on_cursor = FALSE
    /\ phase = "loop"
    /\ budget = b
    /\ broken = <<>>
    /\ last = Obs("init")

NoCall == [op |-> "none"]

Init ==
    /\ Setup([ticks |-> MaxTicks, events |-> MaxEvents, hits |-> MaxTicks])
    /\ call = NoCall

InitRun ==
    /\ Setup([ticks |-> MaxRunTicks, events |-> MaxRunEvents, hits |-> MaxRunHits])
    /\ call = NoCall

\* an event of the queue can be handled in this iteration of the frame loop
CanHandle == phase \in {"loop", "quitting"} /\ budget.events > 0
Handled == budget' = [budget EXCEPT !.events = @ - 1]

\* pygame.QUIT
Quit ==
    /\ CanHandle
    /\ phase' = "quitting"
    /\ Handled
    /\ last' = Obs("quit")
    /\ UNCHANGED <<call, rng, speed_mult, all_sprites, particles, ball_center, ball_velocity,
                   destroy_on_collide, particles_on_cursor, broken>>

\* (mutant) the mode key without all_sprites.clear() and particles.clear()
KeyModeNoClear ==
    /\ CanHandle
    /\ \E key \in ModeKeys :
          /\ speed_mult' = SPEED_NEUTRAL
          /\ ball_velocity' = <<0, 0>>
          /\ ball_center' = center
          /\ particles' = particles
          /\ all_sprites' = all_sprites \o set_mode(key, rng)
          /\ last' = [Obs("mode") EXCEPT
                          !.key = key,
                          !.preDead = \E n \in 1..Len(all_sprites) : ~IsAlive(all_sprites[n]),
                          !.preParts = Len(particles),
                          !.preSpeed = speed_mult]
    /\ rng' = Reseed(rng)
    /\ broken' = <<>>
    /\ Handled
    /\ UNCHANGED <<call, destroy_on_collide, particles_on_cursor, phase>>

\* (mutant) the mode key also switching both mode booleans off
KeyModeResetFlags ==
    /\ CanHandle
    /\ \E key \in ModeKeys :
          /\ speed_mult' = SPEED_NEUTRAL
          /\ ball_velocity' = <<0, 0>>
          /\ ball_center' = center
          /\ particles' = <<>>
          /\ all_sprites' = <<BallEntry>> \o set_mode(key, rng)
          /\ last' = [Obs("mode") EXCEPT
                          !.key = key,
                          !.preDead = \E n \in 1..Len(all_sprites) : ~IsAlive(all_sprites[n]),
                          !.preParts = Len(particles),
                          !.preSpeed = speed_mult]
    /\ rng' = Reseed(rng)
    /\ broken' = <<>>
    /\ Handled
    /\ destroy_on_collide' = FALSE
    /\ particles_on_cursor' = FALSE
    /\ UNCHANGED <<call, phase>>

\* KEYDOWN with K_1, K_2 or K_3
KeyMode ==
    /\ CanHandle
    /\ \E key \in ModeKeys :
          /\ speed_mult' = SPEED_NEUTRAL
          /\ ball_velocity' = <<0, 0>>
          /\ ball_center' = center
          /\ particles' = <<>>
          /\ all_sprites' = <<BallEntry>> \o set_mode(key, rng)
          /\ last' = [Obs("mode") EXCEPT
                          !.key = key,
                          !.preDead = \E n \in 1..Len(all_sprites) : ~IsAlive(all_sprites[n]),
                          !.preParts = Len(particles),
                          !.preSpeed = speed_mult]
    /\ rng' = Reseed(rng)
    /\ broken' = <<>>
    /\ Handled
    /\ UNCHANGED <<call, destroy_on_collide, particles_on_cursor, phase>>

\* KEYDOWN with K_4
Key4 ==
    /\ CanHandle
    /\ destroy_on_collide' = ~destroy_on_collide
    /\ Handled
    /\ last' = Obs("key4")
    /\ UNCHANGED <<call, rng, speed_mult, all_sprites, particles, ball_center, ball_velocity,
                   particles_on_cursor, phase, broken>>

\* KEYDOWN with K_9
Key9 ==
    /\ CanHandle
    /\ particles_on_cursor' = ~particles_on_cursor
    /\ Handled
    /\ last' = Obs("key9")
    /\ UNCHANGED <<call, rng, speed_mult, all_sprites, particles, ball_center, ball_velocity,
                   destroy_on_collide, phase, broken>>

\* MOUSEBUTTONDOWN with button 1
MouseLeft ==
    /\ CanHandle
    /\ \E pos \in MousePositions :
          particles' = Append(particles, Burst("click", 0, 0, <<>>, pos, rng))
    /\ rng' = Reseed(rng)
    /\ Handled
    /\ last' = Obs("click")
    /\ UNCHANGED <<call, speed_mult, all_sprites, ball_center, ball_velocity,
                   destroy_on_collide, particles_on_cursor, phase, broken>>

\* MOUSEBUTTONDOWN with button 2
MouseMiddle ==
    /\ CanHandle
    /\ speed_mult' = SPEED_NEUTRAL
    /\ Handled
    /\ last' = Obs("middle")
    /\ UNCHANGED <<call, rng, all_sprites, particles, ball_center, ball_velocity,
                   destroy_on_collide, particles_on_cursor, phase, broken>>

\* MOUSEMOTION: particles at the cursor while particles_on_cursor is on
MouseMotion ==
    /\ CanHandle
    /\ IF particles_on_cursor
       THEN /\ \E pos \in MousePositions :
                  particles' = Append(particles, Burst("motion", 0, 0, <<>>, pos, rng))
            /\ rng' = Reseed(rng)
       ELSE \* no branch of the event chain takes the event
            UNCHANGED <<particles, rng>>
    /\ Handled
    /\ last' = Obs("motion")
    /\ UNCHANGED <<call, speed_mult, all_sprites, ball_center, ball_velocity,
                   destroy_on_collide, particles_on_cursor, phase, broken>>

\* (mutant) the sum stored without clamping
WheelSpeedUnclamped(sm, y) == sm + y

\* min(max(Sprite.speed_mult + 0.1 * event.y, 0.1), 3)
WheelSpeed(sm, y) == Min2(Max2(sm + y, SPEED_MIN), SPEED_MAX)

\* MOUSEWHEEL
MouseWheel ==
    /\ CanHandle
    /\ \E y \in WheelYs :
          /\ speed_mult' = WheelSpeed(speed_mult, y)
          /\ last' = [Obs("wheel") EXCEPT !.key = y, !.preSpeed = speed_mult]
    /\ Handled
    /\ UNCHANGED <<call, rng, all_sprites, particles, ball_center, ball_velocity,
                   destroy_on_collide, particles_on_cursor, phase, broken>>

\* ------------------------------------------------------------- the tick
\* Ball.update: the new centre and velocity
BallMove(c, v, sm) == <<c[1] + RDiv(v[1] * sm, 100), c[2] + RDiv(v[2] * sm, 100)>>
BallFall(v) == <<v[1], v[2] + BALL_GRAVITY>>

\* Arc.update
ArcUpdate(a, sm) == [a EXCEPT !.angle = a.angle + RDiv(a.speed * sm, 10)]

\* (mutant) dead entries skipped but left in the collection
GroupUpdateSpritesKeepDead(g, sm) ==
    [n \in 1..Len(g) |-> IF g[n].kind = "arc" /\ g[n].alive THEN ArcUpdate(g[n], sm) ELSE g[n]]

\* Group.update on the primary collection: live entries are updated in place,
\* dead ones are removed; the ball's own state is kept in ball_center and
\* ball_velocity
GroupUpdateSprites(g, sm) ==
    LET kept == SelectSeq(g, IsAlive)
    IN [n \in 1..Len(kept) |-> IF kept[n].kind = "arc" THEN ArcUpdate(kept[n], sm) ELSE kept[n]]

HasBall(g) == \E n \in 1..Len(g) : g[n].kind = "ball"

\* Circle.contains(Circle) of a circle (c1, r1) for the circle (c2, r2)
CircleContains(c1, r1, c2, r2) ==
    IF r2 > r1 THEN FALSE
    ELSE (c2[1] - c1[1]) * (c2[1] - c1[1]) + (c2[2] - c1[2]) * (c2[2] - c1[2])
             <= (r2 - r1) * (r2 - r1)

\* velocity.normalize() * amount, for a non-zero velocity
AlongVelocity(v, amount) ==
    LET n == Length(v[1], v[2])
    IN <<RDiv(v[1] * amount, n), RDiv(v[2] * amount, n)>>

\* the repositioning of Arc.collide_ball and of Ball.reflect: the ball centre
\* after circle.move_ip(velocity.normalize() * (radius - length))
Reposition(arcRadius, b, v) ==
    LET radius == arcRadius - BALL_RADIUS
        dx == center[1] - b[1]
        dy == center[2] - b[2]
        length == Length(dx, dy)
        d == AlongVelocity(v, radius - length)
    IN <<b[1] + d[1], b[2] + d[2]>>

\* distance of a ball centre from the centre of the arcs
DistFromCenter(b) == Length(center[1] - b[1], center[2] - b[2])

\* pygame.sprite.collide_mask can report an overlap only when the ball's disc
\* reaches the 2 pixel wide stroke of the arc (one pixel of raster slack); where
\* on the circle the drawn part lies decides the rest
ARC_WIDTH == 80
PIXEL == 40
MaskCanOverlap(arcRadius, b) ==
    LET d == DistFromCenter(b)
    IN /\ d + BALL_RADIUS + PIXEL >= arcRadius - ARC_WIDTH
       /\ d - BALL_RADIUS - PIXEL <= arcRadius

\* the jitter rotations of Ball.reflect, (random() - 0.5) * BALL_REFLECT_ANGLE,
\* as <<cos, sin>> scaled by 10000: -2.5, 0 and 2 degrees
Jitters == <<<<9990, -436>>, <<10000, 0>>, <<9994, 349>>>>

\* velocity.reflect_ip(normal.rotate(angle)) for the normal (dx, dy)
ReflectVelocity(v, dx, dy, jit) ==
    LET length == Length(dx, dy)
        n0 == <<RDiv(dx * 1000, length), RDiv(dy * 1000, length)>>
        n == <<RDiv(n0[1] * jit[1] - n0[2] * jit[2], 10000),
               RDiv(n0[1] * jit[2] + n0[2] * jit[1], 10000)>>
        dot == RDiv(v[1] * n[1] + v[2] * n[2], 1000)
    IN <<v[1] - RDiv(2 * dot * n[1], 1000), v[2] - RDiv(2 * dot * n[2], 1000)>>

\* the velocity points from the centre of the arcs straight through the ball
RadialOutward(b, v) ==
    LET rx == b[1] - center[1]
        ry == b[2] - center[2]
    IN v[1] * ry - v[2] * rx = 0 /\ v[1] * rx + v[2] * ry > 0

\* (mutant) the check held back until more than one arc is left
CheckDueTwoArcs(sprites, b) ==
    /\ Len(sprites) > 2
    /\ ~CircleContains(center, sprites[Len(sprites)].radius, b, BALL_RADIUS)

\* the guard of the collision check on the updated collection
CheckDue(sprites, b) ==
    /\ Len(sprites) > 1
    /\ ~CircleContains(center, sprites[Len(sprites)].radius, b, BALL_RADIUS)

\* (mutant) the arc broken on every check
FracturesAlways(overlap, destroy) == TRUE

\* the branch of the collision check that fractures the arc
Fractures(overlap, destroy) == IF overlap THEN destroy ELSE TRUE

\* the branch of the collision check that reflects the ball
Reflects(overlap, destroy) == overlap

\* one iteration of the frame loop after the event queue is drained:
\* all_sprites.update(), particles.update(), the collision check, the render
Tick ==
    /\ phase \in {"loop", "quitting"}
    /\ budget.ticks > 0
    /\ \E maskHit \in (IF budget.hits > 0 THEN BOOLEAN ELSE {FALSE}) :
        LET sprites1 == GroupUpdateSprites(all_sprites, speed_mult)
            moved == HasBall(all_sprites)
            b1 == IF moved THEN BallMove(ball_center, ball_velocity, speed_mult) ELSE ball_center
            v1 == IF moved THEN BallFall(ball_velocity) ELSE ball_velocity
            parts1 == GroupUpdateParticles(particles, speed_mult)
            len == Len(sprites1)
            arc == sprites1[len]
            check == CheckDue(sprites1, b1)
            ticked == [budget EXCEPT !.ticks = @ - 1]
            obs0 == [Obs("tick") EXCEPT
                        !.nArcs = len - 1,
                        !.velocity = v1,
                        !.contained = len > 1 /\ CircleContains(center, arc.radius, b1, BALL_RADIUS)]
        IN IF ~check
           THEN /\ all_sprites' = sprites1
                /\ particles' = parts1
                /\ ball_center' = b1
                /\ ball_velocity' = v1
                /\ broken' = broken
                /\ budget' = ticked
                /\ rng' = rng
                /\ phase' = IF phase = "quitting" THEN "done" ELSE phase
                /\ last' = obs0
           ELSE LET obs1 == [obs0 EXCEPT !.checked = TRUE, !.targetKind = arc.kind,
                                         !.targetIdx = IF arc.kind = "arc" THEN arc.idx ELSE -1,
                                         !.targetPos = len,
                                         !.targetAlive = IsAlive(arc),
                                         !.allowed = arc.radius - BALL_RADIUS,
                                         !.radialOut = RadialOutward(b1, v1)]
                IN IF v1 = <<0, 0>>
                   THEN \* normalize() of a zero vector raises
                        /\ all_sprites' = sprites1
                        /\ particles' = parts1
                        /\ ball_center' = b1
                        /\ ball_velocity' = v1
                        /\ broken' = broken
                        /\ budget' = ticked
                        /\ rng' = rng
                        /\ phase' = "error"
                        /\ last' = obs1
                   ELSE LET b2 == Reposition(arc.radius, b1, v1)
                            overlap == maskHit /\ MaskCanOverlap(arc.radius, b2)
                            fracture == Fractures(overlap, destroy_on_collide)
                            dx == center[1] - b2[1]
                            dy == center[2] - b2[2]
                            failed == Reflects(overlap, destroy_on_collide) /\ dx = 0 /\ dy = 0
                            reflect == Reflects(overlap, destroy_on_collide) /\ ~failed
                            b3 == IF reflect THEN Reposition(arc.radius, b2, v1) ELSE b2
                            v3 == IF reflect
                                  THEN ReflectVelocity(v1, dx, dy, Jitters[1 + Rand(rng, 0, 3)])
                                  ELSE v1
                        IN /\ all_sprites' = IF fracture
                                             THEN [sprites1 EXCEPT ![len].alive = FALSE]
                                             ELSE sprites1
                           /\ particles' = IF fracture
                                           THEN Append(parts1, Burst("break", arc.radius, arc.angle,
                                                                     arc.color, <<0, 0>>, rng))
                                           ELSE parts1
                           /\ broken' = IF fracture THEN Append(broken, arc.idx) ELSE broken
                           /\ ball_center' = b3
                           /\ ball_velocity' = v3
                           /\ budget' = [ticked EXCEPT !.hits = IF overlap THEN @ - 1 ELSE @]
                           /\ rng' = Reseed(rng)
                           /\ phase' = IF failed THEN "error"
                                       ELSE IF phase = "quitting" THEN "done" ELSE phase
                           /\ last' = [obs1 EXCEPT !.overlap = overlap,
                                                   !.reflected = reflect,
                                                   !.fractured = fracture,
                                                   !.distAfter = DistFromCenter(b2)]
    /\ UNCHANGED <<call, speed_mult, destroy_on_collide, particles_on_cursor>>

Next ==
    \/ Quit
    \/ KeyMode
    \/ Key4
    \/ Key9
    \/ MouseLeft
    \/ MouseMiddle
    \/ MouseMotion
    \/ MouseWheel
    \/ Tick

\* a short run with several input events
Spec == Init /\ [][Next]_vars

\* a long run with at most one input event and one mask hit
SpecRun == InitRun /\ [][Next]_vars

\* ------------------------------------------- random_angle_with_cut on its own
\* starts below 0, in [0, 2*pi) and above 2*pi, on and next to the multiples
\* of half a cut
AngleStarts == {k * (ARC_DELTA \div 2) + j : k \in (0 - 2)..MaxAngleStep, j \in {0, 1}}
AngleLengths == {1, ARC_DELTA, Pi, TwoPi - 1}

InitAngle ==
    /\ Setup([ticks |-> 0, events |-> 0, hits |-> 0])
    /\ \E start \in AngleStarts, length \in AngleLengths, step \in 0..UniformSteps :
          call = [op |-> "angle", start |-> start, length |-> length, step |-> step,
                  done |-> FALSE, result |-> 0]

\* one call random_angle_with_cut(start, length), uniform(0, total_length)
\* giving its step-th value of 0, ..., total_length
CallAngle ==
    /\ call.op = "angle"
    /\ ~call.done
    /\ call' = [call EXCEPT
                   !.done = TRUE,
                   !.result = random_angle_with_cut(call.start, call.length, call.step)]
    /\ UNCHANGED <<speed_mult, all_sprites, particles, ball_center, ball_velocity,
                   destroy_on_collide, particles_on_cursor, phase, rng, budget, broken, last>>

NextAngle == CallAngle

SpecAngle == InitAngle /\ [][NextAngle]_vars

\* ------------------------------------------------------ a particle on its own
\* lifetime as the callers pass it: none (the default), randint(30, 60) at its
\* ends; gravity none (the default) or Vector2(0, random() / 40) at random() = 0
ParticleLifetimes == {0, 30 * SPEED_NEUTRAL, 60 * SPEED_NEUTRAL}
ParticleGravities == {<<>>, <<0, 0>>}

InitParticle ==
    /\ Setup([ticks |-> 0, events |-> MaxScrolls, hits |-> 0])
    /\ \E lifetime \in ParticleLifetimes, gravity \in ParticleGravities :
          \E p \in {NewParticle(<<"xy", 0, 0>>, <<>>, 2 * PIXEL, <<0, 0>>, gravity, lifetime, rng, 0)} :
             call = [op |-> "particle", p |-> p, life0 |-> p.life, n |-> 0,
                     prev |-> p.alpha, spent |-> 0, slowest |-> SPEED_MAX]

\* Group.update on a collection holding the one particle, while it is alive
ParticleTick ==
    /\ call.op = "particle"
    /\ call.p.alive
    /\ call' = [call EXCEPT
                   !.p = ParticleUpdate(call.p, speed_mult),
                   !.n = @ + 1,
                   !.prev = call.p.alpha,
                   !.spent = @ + speed_mult,
                   !.slowest = Min2(@, speed_mult)]
    /\ UNCHANGED <<speed_mult, all_sprites, particles, ball_center, ball_velocity,
                   destroy_on_collide, particles_on_cursor, phase, rng, budget, broken, last>>

NextParticle ==
    \/ MouseWheel
    \/ ParticleTick

SpecParticle == InitParticle /\ [][NextParticle]_vars

\* =================================================================== claims

\* the arcs of a collection, in order
Arcs(g) == SelectSeq(g, LAMBDA e : e.kind = "arc")

\* C1: after a mode-select key is handled the primary collection is the ball
\* followed by exactly 9 live arcs of a fresh layout (radii stepping down by
\* ARC_STEP from max_r), the particle collection is empty, the ball is at the
\* screen centre with velocity (0, 0), and the speed multiplier is 1.0.
ModeSwitchRebuilds ==
    last.op = "mode" =>
        /\ Len(all_sprites) = ARC_COUNT + 1
        /\ all_sprites[1].kind = "ball"
        /\ \A n \in 2..Len(all_sprites) :
              /\ all_sprites[n].kind = "arc"
              /\ all_sprites[n].alive
              /\ all_sprites[n].idx = n - 2
              /\ all_sprites[n].radius = max_r - (n - 2) * ARC_STEP
        /\ ParticleList(particles) = <<>>
        /\ ball_center = center
        /\ ball_velocity = <<0, 0>>
        /\ speed_mult = SPEED_NEUTRAL

\* C1 witness: a mode key handled while a fractured arc was still in the
\* primary collection and particles were in the particle collection
ModeSwitchAfterFracture ==
    last.op = "mode" /\ last.preDead /\ last.preParts > 0 /\ ball_center = center

\* C2: the speed multiplier always lies in [0.1, 3.0], and a scroll of at least
\* 29 steps up (down) leaves it at exactly 3.0 (0.1) whatever it was before.
SpeedClamped ==
    /\ speed_mult \in SPEED_MIN..SPEED_MAX
    /\ (last.op = "wheel" /\ last.key >= SPEED_MAX - SPEED_MIN) => speed_mult = SPEED_MAX
    /\ (last.op = "wheel" /\ last.key <= SPEED_MIN - SPEED_MAX) => speed_mult = SPEED_MIN

\* C2 witness: the multiplier was moved off 1.0 by one scroll and a second,
\* large scroll up was cut off at 3.0
ScrolledToMax ==
    /\ last.op = "wheel" /\ last.key = MaxWheelY /\ speed_mult = SPEED_MAX
    /\ last.preSpeed # SPEED_NEUTRAL
    /\ last.preSpeed + last.key > SPEED_MAX

\* C8 as claimed: a mode-select key leaves both mode booleans off and the
\* speed multiplier at 1.0.
ModeSwitchResetsFlags ==
    last.op = "mode" =>
        /\ ~destroy_on_collide
        /\ ~particles_on_cursor
        /\ speed_mult = SPEED_NEUTRAL

\* C8 amended: a mode-select key resets the speed multiplier to 1.0 and leaves
\* destroy-on-collide and particles-follow-cursor exactly as they were.
ModeSwitchKeepsFlags ==
    [][(last'.op = "mode" /\ budget' # budget) =>
          /\ destroy_on_collide' = destroy_on_collide
          /\ particles_on_cursor' = particles_on_cursor
          /\ speed_mult' = SPEED_NEUTRAL]_vars

\* C8 witness: a mode key was handled with a mode boolean on, and it is still on
ModeSwitchWithFlagOn ==
    last.op = "mode" /\ (destroy_on_collide \/ particles_on_cursor)

\* the entry the collision check of the last tick was run against
Target == all_sprites[last.targetPos]

\* C9: at every collision check that gets to its outcome (a ball at rest or on
\* the arc centre makes normalize() raise and ends the program instead), the
\* mask overlap after repositioning decides the outcome: on an
\* overlap the ball's velocity is reflected and, with destroy-on-collide off,
\* the arc stays alive and no particles are added; without an overlap the arc
\* is killed, one burst of particles is added and the ball's velocity is left
\* as it was; both happen in one check exactly when destroy-on-collide is on
\* and the masks overlap.
CollisionOutcome ==
    [][(last'.op = "tick" /\ last'.checked /\ budget' # budget /\ phase' # "error") =>
          LET arc == all_sprites'[last'.targetPos]
              turned == ball_velocity' # last'.velocity
              killed == ~arc.alive
              added == Len(particles') - Len(particles)
          IN /\ last'.overlap =>
                   /\ turned
                   /\ ~destroy_on_collide => (arc.alive /\ added = 0)
             /\ ~last'.overlap =>
                   /\ killed
                   /\ added = 1
                   /\ particles'[Len(particles')].src = "break"
                   /\ ~turned
             /\ (turned /\ killed) <=> (destroy_on_collide /\ last'.overlap)]_vars

\* C9 witness: a check with destroy-on-collide on and the masks overlapping,
\* the arc killed and the ball turned back in the same check
ReflectAndFracture ==
    /\ last.op = "tick" /\ last.checked /\ last.overlap /\ destroy_on_collide
    /\ ~Target.alive
    /\ ball_velocity # last.velocity
    /\ Len(particles) > 0

\* theta lies in the interval [start, start + length) taken mod 2*pi
InCut(theta, start, length) == PyMod(theta - start, TwoPi) < length

\* C4 as claimed: break_arc marks the arc dead and appends exactly 200
\* particles, leaving the others as they were; each new particle has the arc's
\* colour with alpha 255, lies on the arc's circle and at an angle outside the
\* interval of length ARC_DELTA that starts at angle - ARC_DELTA.
FractureBurst ==
    [][(last'.op = "tick" /\ last'.fractured /\ budget' # budget) =>
          \E arc \in {all_sprites'[last'.targetPos]} :
          \E before \in {ParticleList(GroupUpdateParticles(particles, speed_mult))} :
          \E after \in {ParticleList(particles')} :
             /\ ~arc.alive
             /\ Len(after) = Len(before) + PARTICLE_AMOUNT
             /\ SubSeq(after, 1, Len(before)) = before
             /\ \A n \in (Len(before) + 1)..Len(after) :
                   /\ after[n].color = arc.color
                   /\ after[n].alpha = 255
                   /\ after[n].alive
                   /\ after[n].base[1] = "polar"
                   /\ after[n].base[2] = arc.radius
                   /\ after[n].off = <<0, 0>>
                   /\ ~InCut(0 - after[n].base[3], arc.angle - ARC_DELTA, ARC_DELTA)]_vars

\* C6 as claimed: after Arc.collide_ball has moved the ball, whatever its
\* non-zero velocity, its centre is at distance R_a - r_b from the arc centre
\* (to 0.05 pixel, the rounding of the fixed-point lengths).
CollideSnapsToBoundary ==
    (last.op = "tick" /\ last.checked /\ last.velocity # <<0, 0>>) =>
        Abs(last.distAfter - last.allowed) <= 2

\* C7 as claimed: the collision check of a tick runs exactly when more than
\* one arc remains and the ball is not contained in the innermost arc's circle.
CheckNeedsTwoArcs ==
    last.op = "tick" => (last.checked <=> (last.nArcs > 1 /\ ~last.contained))

\* C7 amended: the collision check of a tick runs exactly when at least one arc
\* remains (more than one entry, the ball counted) and the ball's circle is not
\* contained in the circle of the last entry; its target is that last entry,
\* an arc, and no arc in front of it is killed in the tick.
CheckNeedsOneArc ==
    /\ last.op = "tick" => (last.checked <=> (last.nArcs >= 1 /\ ~last.contained))
    /\ (last.op = "tick" /\ last.checked) =>
          /\ last.targetPos = Len(all_sprites)
          /\ Target.kind = "arc"
          /\ Target.idx = last.targetIdx
          /\ last.fractured <=> ~Target.alive
    /\ \A n \in 1..(Len(all_sprites) - 1) : IsAlive(all_sprites[n])

\* C7 witness: the check ran against the only arc left
CheckOnLastArc ==
    last.op = "tick" /\ last.checked /\ last.nArcs = 1 /\ Len(all_sprites) = 2

\* C10: a fractured arc stays in the primary collection, as its last entry,
\* until the next tick removes it, and that tick's check already runs against a
\* live arc; the ball stays first and the arcs keep their order; between two
\* mode switches the arcs are fractured innermost first, each at most once,
\* and the ball is never the target of the check.
LazyDeletion ==
    /\ all_sprites[1].kind = "ball"
    /\ \A n \in 2..Len(all_sprites) :
          /\ all_sprites[n].kind = "arc"
          /\ n > 2 => all_sprites[n - 1].idx < all_sprites[n].idx
          /\ ~all_sprites[n].alive =>
                /\ n = Len(all_sprites)
                /\ Len(broken) > 0
                /\ broken[Len(broken)] = all_sprites[n].idx
    /\ \A i \in 1..Len(broken) :
          /\ i > 1 => broken[i] < broken[i - 1]
          /\ \A n \in 2..Len(all_sprites) :
                all_sprites[n].idx = broken[i] => (i = Len(broken) /\ ~all_sprites[n].alive)
    /\ (last.op = "tick" /\ last.checked) => (last.targetKind = "arc" /\ last.targetAlive)
    /\ (last.op = "tick" /\ last.fractured) =>
          (~Target.alive /\ broken[Len(broken)] = last.targetIdx)
    /\ (last.op = "tick" /\ ~last.fractured) => \A n \in 1..Len(all_sprites) : IsAlive(all_sprites[n])

\* C10 witness: a check against a live arc in the tick after the arc inside it
\* was fractured and removed, with a second fracture in order
SecondFracture ==
    /\ last.op = "tick" /\ last.checked /\ last.fractured
    /\ Len(broken) >= 2
    /\ broken[Len(broken) - 1] = last.targetIdx + 1

\* C3 as claimed: for every start, every length in (0, 2*pi) and every value of
\* the draw, both ends of uniform(0, total_length) included,
\* random_angle_with_cut returns an angle of [0, 2*pi) outside the excluded
\* interval [start, start + length) taken mod 2*pi.
AngleOutsideCut ==
    (call.op = "angle" /\ call.done) =>
        /\ 0 <= call.result /\ call.result < TwoPi
        /\ ~InCut(call.result, call.start, call.length)

\* C5 as claimed: the alpha of a particle never increases from one update to
\* the next, and after as many updates as its initial lifetime the particle is
\* dead with alpha 0.
ParticleDeadWithinLifetime ==
    call.op = "particle" =>
        /\ call.p.alpha <= call.prev
        /\ call.n * SPEED_NEUTRAL >= call.life0 => (~call.p.alive /\ call.p.alpha = 0)

\* C5 amended: the alpha of a particle never increases from one update to the
\* next; each update takes the speed multiplier of its tick off the lifetime,
\* and the particle is dead, with alpha 0, exactly once the multipliers applied
\* add up to its initial lifetime or more. That takes at most as many updates as
\* the initial lifetime only while no multiplier is below 1.0, and up to ten
\* times as many at the multiplier 0.1.
ParticleFades ==
    call.op = "particle" =>
        /\ call.p.alpha <= call.prev
        /\ call.p.life = call.life0 - call.spent
        /\ ~call.p.alive <=> call.spent >= call.life0
        /\ ~call.p.alive => call.p.alpha = 0
        /\ call.n * SPEED_MIN <= call.life0 + (SPEED_MIN - 1)
        /\ call.slowest >= SPEED_NEUTRAL =>
              call.n * SPEED_NEUTRAL <= call.life0 + (SPEED_NEUTRAL - 1)

\* C5 witness: a particle slowed down by the wheel died, with alpha 0, after
\* more updates than its initial lifetime
ParticleOutlivesLifetime ==
    /\ call.op = "particle"
    /\ ~call.p.alive
    /\ call.p.alpha = 0
    /\ call.slowest < SPEED_NEUTRAL
    /\ call.n * SPEED_NEUTRAL > call.life0
====
